---- MODULE Spec2Model ----
(***************************************************************************)
(* gvfsh: an interactive shell over a GVFS Google-Drive mount              *)
(* (src/gvfsh.py).  The model covers the name resolver get_display_name,   *)
(* the mapping builder list_dir and the session loop repl with all of its  *)
(* commands, together with the environment they talk to: the mount tree,   *)
(* the gio tool and the cp tool.                                           *)
(*                                                                         *)
(* Strings are sequences of tokens: the separator "/" is one token and a   *)
(* run of other characters is one token, so "/tmp/a.txt" is                *)
(* <<"/", "tmp", "/", "a.txt">>, "My Drive" is <<"My Drive">> and the      *)
(* empty string is <<>>.  A pathlib.Path is a record [abs, parts].         *)
(***************************************************************************)
EXTENDS Integers, Sequences, FiniteSets, TLC

VARIABLES
    path_stack,    \* repl: path_stack, a sequence of Paths
    current_path,  \* the module-level global current_path
    name_to_path,  \* repl: name_to_path, the stored mapping (a dict)
    mapping,       \* repl: mapping, the dict list_dir returned to this command
    pc,            \* "render", "input", or how the process ended
    prompt_path,   \* repl: prompt_path, the string of the last prompt
    parts,         \* repl: parts, the tokens of the line of this command
    out,           \* what the last step (prompt or command) printed
    calls,         \* the tools the last command ran to copy or create
    meta,          \* environment: state of every mount entry
    gioAvail,      \* environment: whether the gio executable can be found
    envChanges     \* number of environment changes so far

vars == <<path_stack, current_path, name_to_path, mapping, pc, prompt_path,
          parts, out, calls, meta, gioAvail, envChanges>>

\* The mount may change at most this many times in one behaviour.
MaxEnvChanges == 2

-----------------------------------------------------------------------------
(* Strings and paths *)

SEP == "/"

\* str.startswith("/")
StartsWithSlash(s) == Len(s) > 0 /\ s[1] = SEP

\* pathlib.Path(s): the components between separators; absolute iff s starts
\* with "/".  Empty components (trailing or doubled separators) vanish.
PathOf(s) ==
    [abs |-> StartsWithSlash(s), parts |-> SelectSeq(s, LAMBDA t : t # SEP)]

\* pathlib's p / s: an absolute right operand replaces the left one.
PathJoin(p, s) ==
    LET q == PathOf(s)
    IN  IF q.abs THEN q ELSE [abs |-> p.abs, parts |-> p.parts \o q.parts]

\* "/".join(names), names a sequence of strings
RECURSIVE JoinSep(_)
JoinSep(names) ==
    IF names = <<>> THEN <<>>
    ELSE IF Len(names) = 1 THEN names[1]
    ELSE names[1] \o <<SEP>> \o JoinSep(Tail(names))

\* str(p) of a Path
PathStr(p) ==
    LET body == JoinSep([i \in 1..Len(p.parts) |-> <<p.parts[i]>>])
    IN  IF p.abs THEN <<SEP>> \o body
        ELSE IF p.parts = <<>> THEN <<".">> ELSE body

\* p.name: the last component, "" when there is none
PathName(p) == IF p.parts = <<>> THEN <<>> ELSE <<p.parts[Len(p.parts)]>>

\* p.parent
PathParent(p) ==
    IF p.parts = <<>> THEN p
    ELSE [abs |-> p.abs, parts |-> SubSeq(p.parts, 1, Len(p.parts) - 1)]

-----------------------------------------------------------------------------
(* The environment: the mount tree and the real filesystem *)

GVFS_BASE == [abs |-> TRUE, parts |-> <<"run", "user", "uid", "gvfs">>]
ROOT == PathJoin(GVFS_BASE, <<"google-drive:acct">>)

\* The opaque entries of the mount: two children of the root, one grandchild.
E1 == PathJoin(ROOT, <<"id1">>)
E2 == PathJoin(ROOT, <<"id2">>)
E3 == PathJoin(E1, <<"id3">>)
MountEntries == {E1, E2, E3}
\* Entries that are directories when present; the others are files.
MountDirs == {E1}

MyDrive == <<"My Drive">>
Photos == <<"Photos">>
EmptyStr == <<>>
Apple == <<"apple">>
DisplayNames == {MyDrive, Photos, Apple, EmptyStr}

\* What `gio info <entry>` finds for one entry: the entry is absent, the tool
\* exits non-zero, its output has no display-name line, or it reports a name.
MetaStates ==
    {[st |-> s, name |-> EmptyStr] : s \in {"absent", "fail", "noline"}}
        \cup {[st |-> "ok", name |-> n] : n \in DisplayNames}

Named(n) == [st |-> "ok", name |-> n]

\* The real filesystem outside the mount.
TmpDir == [abs |-> TRUE, parts |-> <<"tmp">>]
TmpFile == [abs |-> TRUE, parts |-> <<"tmp", "a.txt">>]
RealDirs == {[abs |-> TRUE, parts |-> <<>>], TmpDir}
RealFiles == {TmpFile}

RECURSIVE Prefixes(_)
Prefixes(p) == IF p.parts = <<>> THEN {p} ELSE {p} \cup Prefixes(PathParent(p))

Present(e) == meta[e].st # "absent"

\* Path.is_dir()
IsDir(p) ==
    \/ p \in RealDirs
    \/ p \in Prefixes(ROOT)
    \/ p \in MountDirs /\ Present(p)

\* Path.exists()
Exists(p) ==
    \/ IsDir(p)
    \/ p \in RealFiles
    \/ p \in MountEntries /\ Present(p)

\* The entries path.iterdir() yields, in no defined order.
Children(p) == {e \in MountEntries : PathParent(e) = p /\ Present(e)}

\* All enumeration orders of a set.
Orders(S) ==
    {o \in [1..Cardinality(S) -> S] : \A i, j \in 1..Cardinality(S) : o[i] = o[j] => i = j}

-----------------------------------------------------------------------------
(* Messages *)

Msg(tag, a, b) == [tag |-> tag, a |-> a, b |-> b]
NoStr == <<>>

\* dict operations
EmptyMap == [k \in {} |-> ROOT]
Put(m, k, v) == [x \in DOMAIN m \cup {k} |-> IF x = k THEN v ELSE m[x]]

-----------------------------------------------------------------------------
(* get_display_name and list_dir *)

\* A test for None alone, which lets the empty string through.
Truthy_any(name) == TRUE

\* if display_name: neither None nor the empty string
Truthy(name) == name # EmptyStr

\* A resolver that falls back to the raw internal name when gio info fails.
get_display_name_rawname(path, avail, m) ==
    IF ~avail
    THEN [res |-> "exit", name |-> EmptyStr,
          msgs |-> <<Msg("[FATAL] 'gio' not found in PATH", NoStr, NoStr)>>]
    ELSE IF m.st = "ok"
    THEN [res |-> "name", name |-> m.name, msgs |-> <<>>]
    ELSE IF m.st = "noline"
    THEN [res |-> "none", name |-> EmptyStr, msgs |-> <<>>]
    ELSE [res |-> "name", name |-> PathName(path),
          msgs |-> <<Msg("[ERROR] Failed to run gio info on", PathStr(path), NoStr)>>]

\* get_display_name(path) when the gio executable is found (avail) or not and
\* the entry is in state m: the display name, None, or sys.exit(1).
get_display_name(path, avail, m) ==
    IF ~avail
    THEN [res |-> "exit", name |-> EmptyStr,
          msgs |-> <<Msg("[FATAL] 'gio' not found in PATH", NoStr, NoStr)>>]
    ELSE IF m.st = "ok"
    THEN [res |-> "name", name |-> m.name, msgs |-> <<>>]
    ELSE IF m.st = "noline"
    THEN [res |-> "none", name |-> EmptyStr, msgs |-> <<>>]
    ELSE [res |-> "none", name |-> EmptyStr,
          msgs |-> <<Msg("[ERROR] Failed to run gio info on", PathStr(path), NoStr)>>]

\* An order that ignores case: "apple" comes before "My Drive".
TokRank_caseless(t) ==
    CASE t = SEP -> 1
      [] t = "apple" -> 2
      [] t = "My Drive" -> 3
      [] t = "Nope" -> 4
      [] t = "Photos" -> 5
      [] OTHER -> 6

\* Case-sensitive code point order of the tokens in use: "/" before the upper
\* case letters, these before the lower case letters.
TokRank(t) ==
    CASE t = SEP -> 1
      [] t = "My Drive" -> 2
      [] t = "Nope" -> 3
      [] t = "Photos" -> 4
      [] t = "apple" -> 5
      [] OTHER -> 6

RECURSIVE StrLess(_, _)
StrLess(a, b) ==
    IF b = <<>> THEN FALSE
    ELSE IF a = <<>> THEN TRUE
    ELSE IF Head(a) = Head(b) THEN StrLess(Tail(a), Tail(b))
    ELSE TokRank(Head(a)) < TokRank(Head(b))

\* sorted(names) of a set of distinct strings
RECURSIVE Sorted(_)
Sorted(S) ==
    IF S = {} THEN <<>>
    ELSE LET least == CHOOSE x \in S : \A y \in S \ {x} : StrLess(x, y)
         IN  <<least>> \o Sorted(S \ {least})

\* The loop of list_dir over the entries in enumeration order.
RECURSIVE ListLoop(_, _, _, _)
ListLoop(order, avail, m, msgs) ==
    IF order = <<>> THEN [fatal |-> FALSE, mapping |-> m, msgs |-> msgs]
    ELSE LET entry == Head(order)
             dn == get_display_name(entry, avail, meta[entry])
         IN  IF dn.res = "exit"
             THEN [fatal |-> TRUE, mapping |-> m, msgs |-> msgs \o dn.msgs]
             ELSE ListLoop(Tail(order), avail,
                           IF Truthy(dn.name) THEN Put(m, dn.name, entry) ELSE m,
                           msgs \o dn.msgs)

\* list_dir(path, ..., silent) once path.iterdir() has yielded `order`.
list_dir(order, avail, silent) ==
    LET r == ListLoop(order, avail, EmptyMap, <<>>)
        names == Sorted(DOMAIN r.mapping)
    IN  IF r.fatal \/ silent THEN r
        ELSE [r EXCEPT !.msgs = r.msgs \o [i \in 1..Len(names) |-> Msg("name", names[i], NoStr)]]

\* The display_path loop of the prompt and of pwd over path_stack[1:].
RECURSIVE DisplayLoop(_, _, _, _)
DisplayLoop(ps, avail, names, msgs) ==
    IF ps = <<>> THEN [fatal |-> FALSE, names |-> names, msgs |-> msgs]
    ELSE LET p == Head(ps)
             dn == get_display_name(p, avail, meta[p])
         IN  IF dn.res = "exit"
             THEN [fatal |-> TRUE, names |-> names, msgs |-> msgs \o dn.msgs]
             ELSE DisplayLoop(Tail(ps), avail,
                              Append(names, IF Truthy(dn.name) THEN dn.name ELSE PathName(p)),
                              msgs \o dn.msgs)

\* A join that leaves the leading "/" out below the root.
HumanPath_noroot(display_path) ==
    IF display_path # <<>> THEN JoinSep(display_path) ELSE <<SEP>>

\* "/" + "/".join(display_path) if display_path else "/"
HumanPath(display_path) ==
    IF display_path # <<>> THEN <<SEP>> \o JoinSep(display_path) ELSE <<SEP>>

-----------------------------------------------------------------------------
(* The session loop *)

Last(s) == s[Len(s)]

\* A cd .. that pops without looking at the size of the stack.
ascend_unguarded(stack) == SubSeq(stack, 1, Len(stack) - 1)

\* A cd .. that goes back to the root from any depth.
ascend_to_root(stack) == <<stack[1]>>

\* cd ..: pop unless only the root is left
ascend(stack) == IF Len(stack) > 1 THEN SubSeq(stack, 1, Len(stack) - 1) ELSE stack

\* A descent that overwrites the top of the stack instead of pushing.
descend_replace(stack, new_path) == [stack EXCEPT ![Len(stack)] = new_path]

\* cd <name>, name found: push the mapped entry
descend(stack, new_path) == Append(stack, new_path)

\* An exception nothing catches: the interpreter prints a traceback and ends.
Traceback(exc, what) == <<Msg("Traceback", <<exc>>, what)>>

\* A lookup with a default: a miss pushes the current location once more.
cd_resolve_push(stack, m, target) ==
    descend(stack, IF target \in DOMAIN m THEN m[target] ELSE Last(stack))

\* Lines 119-122: the stack after cd <target> looked target up in m
cd_resolve(stack, m, target) ==
    IF target \in DOMAIN m THEN descend(stack, m[target]) ELSE stack

Init ==
    /\ path_stack = <<ROOT>>
    /\ current_path = ROOT
    /\ name_to_path = EmptyMap
    /\ mapping = EmptyMap
    /\ pc = "render"
    /\ prompt_path = NoStr
    /\ parts = <<>>
    /\ out = <<>>
    /\ calls = <<>>
    /\ meta = [e \in MountEntries |->
                IF e = E1 THEN Named(MyDrive) ELSE Named(Photos)]
    /\ gioAvail = TRUE
    /\ envChanges = 0

envVars == <<meta, gioAvail, envChanges>>

\* The mount changes while the session waits in input(): one entry appears,
\* disappears, is renamed or starts or stops resolving, or the gio executable
\* comes or goes.
EnvChange ==
    /\ pc = "input"
    /\ envChanges < MaxEnvChanges
    /\ envChanges' = envChanges + 1
    /\ \/ \E e \in MountEntries, s \in MetaStates :
             /\ s # meta[e]
             /\ meta' = [meta EXCEPT ![e] = s]
             /\ UNCHANGED gioAvail
       \/ /\ gioAvail' = ~gioAvail
          /\ UNCHANGED meta
    /\ UNCHANGED <<path_stack, current_path, name_to_path, mapping, pc,
                   prompt_path, parts, out, calls>>

\* Lines 80-86: render the prompt and block in input().  parts and mapping are
\* dead here (every command assigns them before it reads them), so the model
\* forgets the previous command's values.
Prompt ==
    /\ pc = "render"
    /\ LET r == DisplayLoop(Tail(path_stack), gioAvail, <<>>, <<>>)
       IN  /\ out' = r.msgs
           /\ IF r.fatal
              THEN pc' = "fatal" /\ UNCHANGED prompt_path
              ELSE pc' = "input" /\ prompt_path' = HumanPath(r.names)
    /\ calls' = <<>>
    /\ parts' = <<>>
    /\ mapping' = EmptyMap
    /\ UNCHANGED <<path_stack, current_path, name_to_path, envVars>>

-----------------------------------------------------------------------------
(* Input lines: the tokens shlex.split gives *)

Word(w) == <<w>>
DotDot == Word("..")
Nope == Word("Nope")
NewName == Word("x.txt")
TmpFileArg == <<SEP, "tmp", SEP, "a.txt">>
TmpDirArg == <<SEP, "tmp", SEP>>
TmpNewArg == <<SEP, "tmp", SEP, "b.txt">>

CdTargets == {DotDot, MyDrive, Photos, Nope, EmptyStr}
NameArgs == {MyDrive, Photos, Nope}
CpSources == {Photos, TmpFileArg, TmpNewArg, Nope}
CpDests == {MyDrive, NewName, TmpDirArg, TmpNewArg}

\* A store that is updated without being cleared first: entries of earlier
\* listings stay.
store_update_noclear(mapping_store, m) ==
    [k \in DOMAIN mapping_store \cup DOMAIN m |->
        IF k \in DOMAIN m THEN m[k] ELSE mapping_store[k]]

\* list_dir lines 44-46: mapping_store.clear(); mapping_store.update(mapping)
store_update(mapping_store, m) == m

\* A listing that overwrites the stored mapping although no store was passed.
store_keep_overwritten(mapping_store, m) == m

\* list_dir line 44 with mapping_store=None, as cp calls it at line 152: the
\* stored mapping of repl stays as it is
store_keep(mapping_store, m) == mapping_store

\* A command that trusts the stored mapping of an earlier listing when there
\* is one.
fresh_mapping_cached(mapping_store, m) == IF mapping_store # EmptyMap THEN mapping_store ELSE m

\* Line 152: mapping = list_dir(current_path, silent=True), the mapping cp
\* looks names up in
fresh_mapping(mapping_store, m) == m

\* A cd .. that pops the stack and leaves the global where it was.
up_current_stale(stack, cur) == cur

\* Lines 110-112: current_path after cd .. on this stack
up_current(stack, cur) == IF Len(stack) > 1 THEN stack[Len(stack) - 1] ELSE cur

\* How the step ends: back to the prompt, or the process is over.
End(npc, msgs, cl) == pc' = npc /\ out' = msgs /\ calls' = cl

\* path.iterdir() raises unless path is an existing directory
IterdirError(p) ==
    Traceback(IF Exists(p) THEN "NotADirectoryError" ELSE "FileNotFoundError", PathStr(p))

\* ls (lines 100-101)
Ls ==
    /\ pc = "input"
    /\ parts' = <<Word("ls")>>
    /\ IF ~IsDir(current_path)
       THEN /\ End("crashed", IterdirError(current_path), <<>>)
            /\ UNCHANGED <<mapping, name_to_path>>
       ELSE \E order \in Orders(Children(current_path)) :
              LET r == list_dir(order, gioAvail, FALSE)
              IN  IF r.fatal
                  THEN /\ End("fatal", r.msgs, <<>>)
                       /\ UNCHANGED <<mapping, name_to_path>>
                  ELSE /\ End("render", r.msgs, <<>>)
                       /\ mapping' = r.mapping
                       /\ name_to_path' = store_update(name_to_path, r.mapping)
    /\ UNCHANGED <<path_stack, current_path, prompt_path, envVars>>

\* cd without an argument (lines 104-106)
CdNoArg ==
    /\ pc = "input"
    /\ parts' = <<Word("cd")>>
    /\ End("render", <<Msg("cd: missing argument", NoStr, NoStr)>>, <<>>)
    /\ UNCHANGED <<path_stack, current_path, name_to_path, mapping, prompt_path, envVars>>

\* cd .. (lines 108-113)
CdUp ==
    /\ pc = "input"
    /\ parts' = <<Word("cd"), DotDot>>
    /\ path_stack' = ascend(path_stack)
    /\ current_path' = up_current(path_stack, current_path)
    /\ End("render", <<>>, <<>>)
    /\ UNCHANGED <<name_to_path, mapping, prompt_path, envVars>>

\* cd <name> (lines 115-124)
CdName(target) ==
    /\ pc = "input"
    /\ target # DotDot
    /\ parts' = <<Word("cd"), target>>
    /\ IF ~IsDir(current_path)
       THEN /\ End("crashed", IterdirError(current_path), <<>>)
            /\ name_to_path' = EmptyMap
            /\ UNCHANGED <<mapping, path_stack, current_path>>
       ELSE \E order \in Orders(Children(current_path)) :
              LET r == list_dir(order, gioAvail, TRUE)
              IN  IF r.fatal
                  THEN /\ End("fatal", r.msgs, <<>>)
                       /\ name_to_path' = EmptyMap
                       /\ UNCHANGED <<mapping, path_stack, current_path>>
                  ELSE /\ mapping' = r.mapping
                       /\ name_to_path' = store_update(name_to_path, r.mapping)
                       /\ path_stack' = cd_resolve(path_stack, name_to_path', target)
                       /\ IF target \in DOMAIN name_to_path'
                          THEN /\ current_path' = name_to_path'[target]
                               /\ End("render", r.msgs, <<>>)
                          ELSE /\ End("render",
                                      r.msgs \o <<Msg("cd: no such file or directory:", target, NoStr)>>,
                                      <<>>)
                               /\ UNCHANGED current_path
    /\ UNCHANGED <<prompt_path, envVars>>

\* mkdir without an argument (lines 127-129)
MkdirNoArg ==
    /\ pc = "input"
    /\ parts' = <<Word("mkdir")>>
    /\ End("render", <<Msg("mkdir: missing argument", NoStr, NoStr)>>, <<>>)
    /\ UNCHANGED <<path_stack, current_path, name_to_path, mapping, prompt_path, envVars>>

\* One run of an external tool: its arguments and how it ended.
Call(tool, src, dst, res) == [tool |-> tool, src |-> src, dst |-> dst, res |-> res]

\* mkdir <name> (lines 131-142)
Mkdir(dir_name) ==
    /\ pc = "input"
    /\ parts' = <<Word("mkdir"), dir_name>>
    /\ IF ~IsDir(current_path)
       THEN /\ End("crashed", IterdirError(current_path), <<>>)
            /\ UNCHANGED mapping
       ELSE \E order \in Orders(Children(current_path)) :
              LET r == list_dir(order, gioAvail, TRUE)
                  new_dir == PathJoin(current_path, dir_name)
              IN  IF r.fatal
                  THEN End("fatal", r.msgs, <<>>) /\ UNCHANGED mapping
                  ELSE /\ mapping' = r.mapping
                       /\ IF dir_name \in DOMAIN r.mapping
                          THEN End("render",
                                   r.msgs \o <<Msg("mkdir: directory already exists:", dir_name, NoStr)>>,
                                   <<>>)
                          ELSE \E ok \in BOOLEAN :
                                 End("render",
                                     r.msgs \o <<Msg(IF ok THEN "Created directory:" ELSE "mkdir: failed:",
                                                     dir_name, NoStr)>>,
                                     <<Call("mkdir", NoStr, PathStr(new_dir), IF ok THEN "ok" ELSE "fail")>>)
    /\ UNCHANGED <<path_stack, current_path, name_to_path, prompt_path, envVars>>

\* pwd (lines 194-199)
Pwd ==
    /\ pc = "input"
    /\ parts' = <<Word("pwd")>>
    /\ LET r == DisplayLoop(Tail(path_stack), gioAvail, <<>>, <<>>)
       IN  IF r.fatal
           THEN End("fatal", r.msgs, <<>>)
           ELSE End("render", r.msgs \o <<Msg("path", HumanPath(r.names), NoStr)>>, <<>>)
    /\ UNCHANGED <<path_stack, current_path, name_to_path, mapping, prompt_path, envVars>>

\* info without an argument (lines 205-207)
InfoNoArg ==
    /\ pc = "input"
    /\ parts' = <<Word("info")>>
    /\ End("render", <<Msg("info: missing argument", NoStr, NoStr)>>, <<>>)
    /\ UNCHANGED <<path_stack, current_path, name_to_path, mapping, prompt_path, envVars>>

\* Outcomes of running an external tool once more after the listing: it
\* succeeds, exits non-zero, or its executable is no longer found.
ToolOutcomes == {"ok", "fail", "missing"}

\* info <name> (lines 209-220)
Info(target) ==
    /\ pc = "input"
    /\ parts' = <<Word("info"), target>>
    /\ IF ~IsDir(current_path)
       THEN /\ End("crashed", IterdirError(current_path), <<>>)
            /\ UNCHANGED <<mapping, gioAvail>>
       ELSE \E order \in Orders(Children(current_path)) :
              LET r == list_dir(order, gioAvail, TRUE)
              IN  IF r.fatal
                  THEN End("fatal", r.msgs, <<>>) /\ UNCHANGED <<mapping, gioAvail>>
                  ELSE /\ mapping' = r.mapping
                       /\ IF target \notin DOMAIN r.mapping
                          THEN /\ End("render",
                                      r.msgs \o <<Msg("info: no such file:", target, NoStr)>>, <<>>)
                               /\ UNCHANGED gioAvail
                          ELSE \E res \in ToolOutcomes :
                                 LET target_path == r.mapping[target]
                                 IN  /\ gioAvail' = (res # "missing")
                                     /\ CASE res = "ok" ->
                                               End("render",
                                                   r.msgs \o <<Msg("gio info output", PathStr(target_path), NoStr)>>,
                                                   <<>>)
                                          [] res = "fail" ->
                                               End("render",
                                                   r.msgs \o <<Msg("[ERROR] Failed to get info on",
                                                                   PathStr(target_path), NoStr)>>,
                                                   <<>>)
                                          [] OTHER ->
                                               End("crashed", r.msgs \o Traceback("FileNotFoundError", Word("gio")), <<>>)
    /\ UNCHANGED <<path_stack, current_path, name_to_path, prompt_path, meta, envChanges>>

\* cp with a wrong number of arguments (lines 146-148)
CpUsage ==
    /\ pc = "input"
    /\ \E args \in {<<>>, <<Photos>>, <<Photos, NewName, NewName>>} :
         parts' = <<Word("cp")>> \o args
    /\ End("render", <<Msg("cp: usage: cp <src> <dst>", NoStr, NoStr)>>, <<>>)
    /\ UNCHANGED <<path_stack, current_path, name_to_path, mapping, prompt_path, envVars>>

\* dict.get(key): the value, or None
HasKey(m, k) == k \in DOMAIN m

\* Lines 156-158: the destination of a copy whose source is a real file.
real_dst(m, cur, dst_arg) ==
    IF HasKey(m, dst_arg) THEN m[dst_arg] ELSE PathJoin(cur, dst_arg)

\* Lines 173-177: the destination of a copy out of the mount; dn is what
\* get_display_name(src) returned when dst_arg names a directory.
gio_dst(dst_arg, isdir, dn) ==
    IF isdir /\ Truthy(dn.name) THEN PathJoin(PathOf(dst_arg), dn.name) ELSE PathOf(dst_arg)

\* A report printed after the try block: the confirmation comes out even when
\* cp failed.
cp_report_always(res, src, dst) ==
    IF res = "ok" THEN <<Msg("Copied", src, dst)>>
    ELSE <<Msg("cp: failed:", NoStr, NoStr), Msg("Copied", src, dst)>>

\* Lines 159-163 and 186-190: what the generic cp branch prints
cp_report(res, src, dst) ==
    IF res = "ok" THEN <<Msg("Copied", src, dst)>> ELSE <<Msg("cp: failed:", NoStr, NoStr)>>

\* State of an entry whose metadata query exits non-zero.
FailState == [st |-> "fail", name |-> EmptyStr]

\* Lines 154-163: local filesystem to GVFS, with the generic cp.
CpReal(m, msgs, src_arg, dst_arg) ==
    LET src_path == PathOf(src_arg)
        dst == real_dst(m, current_path, dst_arg)
    IN  /\ UNCHANGED gioAvail
        /\ \E res \in ToolOutcomes :
             LET cl == <<Call("cp", PathStr(src_path), PathStr(dst), res)>>
             IN  IF res = "missing"
                 THEN End("crashed", msgs \o Traceback("FileNotFoundError", Word("cp")), cl)
                 ELSE End("render", msgs \o cp_report(res, PathStr(src_path), PathStr(dst)), cl)

\* Lines 171-182: GVFS to the real filesystem, with gio copy.
CpGio(m, msgs, src_arg, dst_arg) ==
    LET src == m[src_arg]
        isdir == IsDir(PathOf(dst_arg))
    IN  \E q \in ToolOutcomes :
          LET dn == IF ~isdir THEN [res |-> "none", name |-> EmptyStr, msgs |-> <<>>]
                    ELSE get_display_name(src, q # "missing",
                                          IF q = "fail" THEN FailState ELSE meta[src])
              dst_path == gio_dst(dst_arg, isdir, dn)
          IN  IF dn.res = "exit"
              THEN /\ End("fatal", msgs \o dn.msgs, <<>>)
                   /\ gioAvail' = FALSE
              ELSE \E res \in ToolOutcomes :
                   LET cl == <<Call("gio copy", PathStr(src), PathStr(dst_path), res)>>
                   IN
                     /\ gioAvail' = (res # "missing")
                     /\ CASE res = "ok" ->
                               End("render",
                                   msgs \o dn.msgs \o <<Msg("Copied via gio", PathStr(src), PathStr(dst_path))>>,
                                   cl)
                          [] res = "fail" ->
                               End("render", msgs \o dn.msgs \o <<Msg("gio cp failed:", NoStr, NoStr)>>, cl)
                          [] OTHER ->
                               End("crashed", msgs \o dn.msgs \o Traceback("FileNotFoundError", Word("gio")), cl)

\* Lines 184-190: GVFS to GVFS, with the generic cp.
CpMount(m, msgs, src_arg, dst_arg) ==
    LET src == m[src_arg]
        dst == PathJoin(current_path, dst_arg)
    IN  /\ UNCHANGED gioAvail
        /\ \E res \in ToolOutcomes :
             LET cl == <<Call("cp", PathStr(src), PathStr(dst), res)>>
             IN  IF res = "missing"
                 THEN End("crashed", msgs \o Traceback("FileNotFoundError", Word("cp")), cl)
                 ELSE End("render", msgs \o cp_report(res, PathStr(src), PathStr(dst)), cl)

\* A test that forgets to ask whether the absolute path exists.
src_is_real_absonly(src_arg) == PathOf(src_arg).abs

\* Line 154: the source is a real file
src_is_real(src_arg) == PathOf(src_arg).abs /\ Exists(PathOf(src_arg))

\* cp <src> <dst> (lines 150-190)
Cp(src_arg, dst_arg) ==
    /\ pc = "input"
    /\ parts' = <<Word("cp"), src_arg, dst_arg>>
    /\ IF ~IsDir(current_path)
       THEN /\ End("crashed", IterdirError(current_path), <<>>)
            /\ UNCHANGED <<mapping, name_to_path, gioAvail>>
       ELSE \E order \in Orders(Children(current_path)) :
              LET r == list_dir(order, gioAvail, TRUE)
                  m == fresh_mapping(name_to_path, r.mapping)
              IN  IF r.fatal
                  THEN End("fatal", r.msgs, <<>>) /\ UNCHANGED <<mapping, name_to_path, gioAvail>>
                  ELSE /\ mapping' = m
                       /\ name_to_path' = store_keep(name_to_path, r.mapping)
                       /\ IF src_is_real(src_arg)
                          THEN CpReal(m, r.msgs, src_arg, dst_arg)
                          ELSE IF ~HasKey(m, src_arg)
                          THEN /\ End("render",
                                      r.msgs \o <<Msg("cp: no such file:", src_arg, NoStr)>>, <<>>)
                               /\ UNCHANGED gioAvail
                          ELSE IF StartsWithSlash(dst_arg)
                          THEN CpGio(m, r.msgs, src_arg, dst_arg)
                          ELSE CpMount(m, r.msgs, src_arg, dst_arg)
    /\ UNCHANGED <<path_stack, current_path, prompt_path, meta, envChanges>>

\* clear, help (lines 201-202, 222-239)
ClearOrHelp ==
    /\ pc = "input"
    /\ \E c \in {"clear", "help"} :
         /\ parts' = <<Word(c)>>
         /\ End("render", IF c = "help" THEN <<Msg("help text", NoStr, NoStr)>> ELSE <<>>, <<>>)
    /\ UNCHANGED <<path_stack, current_path, name_to_path, mapping, prompt_path, envVars>>

\* any other verb (lines 241-242)
Unknown ==
    /\ pc = "input"
    /\ \E c \in {"rm", "LS"} :
         /\ parts' = <<Word(c)>>
         /\ End("render", <<Msg("command not found", Word(c), NoStr)>>, <<>>)
    /\ UNCHANGED <<path_stack, current_path, name_to_path, mapping, prompt_path, envVars>>

\* An empty line that goes back to the root, as a bare cd does in a shell.
EmptyLine_home ==
    /\ pc = "input"
    /\ parts' = <<>>
    /\ End("render", <<>>, <<>>)
    /\ path_stack' = <<path_stack[1]>>
    /\ current_path' = path_stack[1]
    /\ UNCHANGED <<name_to_path, mapping, prompt_path, envVars>>

\* an empty or blank line (lines 90-92)
EmptyLine ==
    /\ pc = "input"
    /\ parts' = <<>>
    /\ End("render", <<>>, <<>>)
    /\ UNCHANGED <<path_stack, current_path, name_to_path, mapping, prompt_path, envVars>>

\* exit, or end of input (lines 87-88, 97-98)
Exit ==
    /\ pc = "input"
    /\ \/ parts' = <<Word("exit")>>
       \/ UNCHANGED parts
    /\ End("exited", <<>>, <<>>)
    /\ UNCHANGED <<path_stack, current_path, name_to_path, mapping, prompt_path, envVars>>

\* a line shlex.split cannot tokenize, such as  cd "My Drive  (line 90)
BadQuoting ==
    /\ pc = "input"
    /\ End("crashed", Traceback("ValueError", Word("No closing quotation")), <<>>)
    /\ UNCHANGED <<path_stack, current_path, name_to_path, mapping, prompt_path, parts, envVars>>

Next ==
    \/ EnvChange
    \/ Prompt
    \/ Ls
    \/ CdNoArg
    \/ CdUp
    \/ \E t \in CdTargets : CdName(t)
    \/ MkdirNoArg
    \/ \E n \in NameArgs \cup {NewName} : Mkdir(n)
    \/ Pwd
    \/ InfoNoArg
    \/ \E n \in NameArgs : Info(n)
    \/ CpUsage
    \/ \E s \in CpSources, d \in CpDests : Cp(s, d)
    \/ ClearOrHelp
    \/ Unknown
    \/ EmptyLine
    \/ Exit
    \/ BadQuoting

Spec == Init /\ [][Next]_vars

-----------------------------------------------------------------------------
(* Properties *)

\* The step just taken ran the command whose tokens are in parts: commands
\* lead from "input" to the next prompt or to the end of the process.
AfterCommand == pc # "input" /\ parts # <<>>
IsCmd(ps, verb, n) == Len(ps) = n /\ ps[1] = Word(verb)

\* C1: the location stack is never empty and its first element is the mount
\* root handed in at startup, whatever commands ran and however the external
\* tools behaved.
C1_RootNeverPopped == Len(path_stack) >= 1 /\ path_stack[1] = ROOT

\* cd .. has just run and the stack holds the root alone, after an earlier
\* listing or descent
C1_Witness ==
    /\ pc = "render"
    /\ parts = <<Word("cd"), DotDot>>
    /\ path_stack = <<ROOT>>
    /\ name_to_path # EmptyMap

\* C2: no exception escapes the session loop: the process never ends with an
\* uncaught error, only by exit, end of input or the fatal gio diagnostic.
C2_NoUncaughtError == pc # "crashed"

\* str.startswith(prefix) on token strings
IsPrefix(prefix, str) ==
    Len(prefix) <= Len(str) /\ SubSeq(str, 1, Len(prefix)) = prefix

\* C3: when the copy source is a real file, the destination handed to cp is
\* the mount entry the destination string maps to, or the child of the current
\* mount location named by the destination string; never a path outside the
\* mount.
C3_RealCopyStaysInMount ==
    (AfterCommand /\ IsCmd(parts, "cp", 3) /\ src_is_real(parts[2]) /\ calls # <<>>)
        => /\ \/ HasKey(mapping, parts[3]) /\ calls[1].dst = PathStr(mapping[parts[3]])
              \/ calls[1].dst = PathStr(current_path) \o <<SEP>> \o parts[3]
           /\ IsPrefix(PathStr(ROOT), calls[1].dst)

-----------------------------------------------------------------------------
(* The mount as it is when a command runs *)

\* Children of loc whose metadata query gives a usable (non-empty) name.
Resolved(loc) ==
    {e \in Children(loc) : meta[e].st = "ok" /\ meta[e].name # EmptyStr}
FreshNames(loc) == {meta[e].name : e \in Resolved(loc)}
Bearing(loc, n) == {e \in Resolved(loc) : meta[e].name = n}

\* The listing of loc comes back: loc can be enumerated and gio is there for
\* every child.
Listable(loc) == IsDir(loc) /\ (gioAvail \/ Children(loc) = {})

Range(m) == {m[k] : k \in DOMAIN m}
HasMsg(o, tag) == \E i \in 1..Len(o) : o[i].tag = tag
HasMsgOn(o, tag, a) == \E i \in 1..Len(o) : o[i].tag = tag /\ o[i].a = a
CountMsgOn(o, tag, a) == Cardinality({i \in 1..Len(o) : o[i].tag = tag /\ o[i].a = a})

\* The commands that build a mapping of the current location.
ListingCmd(ps) ==
    \/ IsCmd(ps, "ls", 1)
    \/ IsCmd(ps, "cd", 2) /\ ps[2] # DotDot
    \/ IsCmd(ps, "mkdir", 2)
    \/ IsCmd(ps, "info", 2)
    \/ IsCmd(ps, "cp", 3)

\* C4: every lookup by name (cd, cp, info, mkdir) is answered from the
\* children of the current location as they are when the command runs: it
\* finds the name exactly when a child resolving to a usable name bears it, and
\* what it finds is such a child, whatever earlier listings stored.
C4_FreshLookup ==
    [][(pc = "input" /\ pc' = "render" /\ Listable(current_path))
        => /\ (IsCmd(parts', "cd", 2) /\ parts'[2] # DotDot)
                => /\ (path_stack' # path_stack) <=> (parts'[2] \in FreshNames(current_path))
                   /\ (path_stack' # path_stack)
                        => Last(path_stack') \in Bearing(current_path, parts'[2])
           /\ IsCmd(parts', "info", 2)
                => (HasMsg(out', "info: no such file:") <=> parts'[2] \notin FreshNames(current_path))
           /\ IsCmd(parts', "mkdir", 2)
                => (HasMsg(out', "mkdir: directory already exists:")
                        <=> parts'[2] \in FreshNames(current_path))
           /\ (IsCmd(parts', "cp", 3) /\ ~src_is_real(parts'[2]))
                => /\ HasMsg(out', "cp: no such file:") <=> parts'[2] \notin FreshNames(current_path)
                   /\ calls' # <<>>
                        => \E e \in Bearing(current_path, parts'[2]) : calls'[1].src = PathStr(e)
           /\ (IsCmd(parts', "cp", 3) /\ src_is_real(parts'[2]))
                => /\ calls' # <<>>
                   /\ parts'[3] \in FreshNames(current_path)
                        => \E e \in Bearing(current_path, parts'[3]) : calls'[1].dst = PathStr(e)
                   /\ parts'[3] \notin FreshNames(current_path)
                        => \A e \in MountEntries : calls'[1].dst # PathStr(e)
      ]_vars

\* cd Photos at the root has just missed: the root's child of that name, there
\* when the session started, has left the mount since
C4_Witness ==
    /\ pc = "render"
    /\ parts = <<Word("cd"), Photos>>
    /\ path_stack = <<ROOT>>
    /\ meta[E2].st = "absent"
    /\ HasMsgOn(out, "cd: no such file or directory:", Photos)

ErrTag == "[ERROR] Failed to run gio info on"

\* C5 as stated: when the metadata query fails for one child during a
\* listing, that child is absent from the mapping, every other resolvable
\* child is present, and no error message is shown.
C5_SilentDrop ==
    (pc = "render" /\ IsCmd(parts, "ls", 1))
        => \A c \in Children(current_path) :
             meta[c].st = "fail"
                => /\ c \notin Range(mapping)
                   /\ \A d \in Resolved(current_path) : HasKey(mapping, meta[d].name)
                   /\ ~HasMsg(out, ErrTag)

\* C5 amended: when the metadata query fails for one child while a command
\* lists the current location, that child is absent from the mapping, the name
\* of every other child resolving to a usable name is a key, and exactly one
\* [ERROR] line naming the failed child is printed, in silent listings too.
C5_DropWithError ==
    [][(pc = "input" /\ pc' # "input" /\ ListingCmd(parts') /\ Listable(current_path))
        => \A c \in Children(current_path) :
             meta[c].st = "fail"
                => /\ c \notin Range(mapping')
                   /\ \A d \in Resolved(current_path) : HasKey(mapping', meta[d].name)
                   /\ CountMsgOn(out', ErrTag, PathStr(c)) = 1
      ]_vars

\* ls at the root has just run while gio info fails for id2
C5_Witness ==
    /\ pc = "render"
    /\ IsCmd(parts, "ls", 1)
    /\ current_path = ROOT
    /\ meta[E1] = Named(MyDrive)
    /\ meta[E2].st = "fail"
    /\ DOMAIN mapping = {MyDrive}
    /\ out = <<Msg(ErrTag, PathStr(E2), NoStr), Msg("name", MyDrive, NoStr)>>

\* C6 as stated: the keys of the mapping built for a directory are in
\* bijection with its children whose resolution succeeds, children sharing a
\* name or named by the empty string included.
C6_Bijection ==
    (pc = "render" /\ IsCmd(parts, "ls", 1))
        => LET ok == {c \in Children(current_path) : meta[c].st = "ok"}
           IN  /\ Cardinality(DOMAIN mapping) = Cardinality(ok)
               /\ \A c \in ok : HasKey(mapping, meta[c].name) /\ mapping[meta[c].name] = c
               /\ Range(mapping) \subseteq ok

\* C6 amended: the keys of the mapping built for a directory are exactly the
\* non-empty display names of its children whose resolution succeeds, and each
\* key maps to one child bearing that name; so keys and resolved children are
\* in bijection when those names are non-empty and pairwise distinct, and no
\* child whose resolution fails appears.
C6_KeysAreResolvedNames ==
    [][(pc = "input" /\ pc' # "input" /\ ListingCmd(parts') /\ Listable(current_path))
        => /\ DOMAIN mapping' = FreshNames(current_path)
           /\ \A k \in DOMAIN mapping' : mapping'[k] \in Bearing(current_path, k)
           /\ Cardinality(FreshNames(current_path)) = Cardinality(Resolved(current_path))
                => Range(mapping') = Resolved(current_path)
      ]_vars

\* ls at the root has just run while both children are called My Drive
C6_Witness ==
    /\ pc = "render"
    /\ IsCmd(parts, "ls", 1)
    /\ current_path = ROOT
    /\ meta[E1] = Named(MyDrive)
    /\ meta[E2] = Named(MyDrive)
    /\ DOMAIN mapping = {MyDrive}

FatalTag == "[FATAL] 'gio' not found in PATH"

\* C7: whenever an invocation of gio finds the executable missing, the
\* session ends at once with the fatal diagnostic, wherever gio is invoked.
C7_MissingToolIsFatal ==
    (\E i \in 1..Len(out) :
        \/ out[i].tag = FatalTag
        \/ out[i].tag = "Traceback" /\ out[i].a = <<"FileNotFoundError">> /\ out[i].b = Word("gio"))
        => pc = "fatal" /\ HasMsg(out, FatalTag)

\* C8: cd with a name that no resolvable child of the current location bears
\* reports the miss, leaves the stack and the current location as they were,
\* and the session goes on to the next prompt.
C8_NavigationMiss ==
    [][(/\ pc = "input"
        /\ IsCmd(parts', "cd", 2)
        /\ parts'[2] # DotDot
        /\ Listable(current_path)
        /\ parts'[2] \notin FreshNames(current_path))
        => /\ path_stack' = path_stack
           /\ current_path' = current_path
           /\ pc' = "render"
           /\ HasMsgOn(out', "cd: no such file or directory:", parts'[2])
      ]_vars

\* cd Nope has just missed one level below the root
C8_Witness ==
    /\ pc = "render"
    /\ parts = <<Word("cd"), Nope>>
    /\ path_stack = <<ROOT, E1>>
    /\ current_path = E1
    /\ HasMsgOn(out, "cd: no such file or directory:", Nope)

\* C9: cd with a name present in the fresh mapping appends exactly the mapped
\* entry to the stack and makes it the current location; from the root with
\* My Drive -> id1 and Photos -> id2, cd "My Drive" gives [root, id1], and pwd
\* there prints /My Drive.
C9_Descend ==
    [][/\ (/\ pc = "input"
           /\ IsCmd(parts', "cd", 2)
           /\ parts'[2] # DotDot
           /\ Listable(current_path)
           /\ parts'[2] \in FreshNames(current_path))
           => /\ path_stack' = Append(path_stack, name_to_path'[parts'[2]])
              /\ current_path' = name_to_path'[parts'[2]]
              /\ name_to_path'[parts'[2]] \in Bearing(current_path, parts'[2])
              /\ pc' = "render"
       /\ (/\ pc = "input"
           /\ parts' = <<Word("cd"), MyDrive>>
           /\ path_stack = <<ROOT>>
           /\ gioAvail
           /\ meta[E1] = Named(MyDrive)
           /\ meta[E2] = Named(Photos))
           => path_stack' = <<ROOT, E1>>
       /\ (/\ pc = "input"
           /\ IsCmd(parts', "pwd", 1)
           /\ path_stack = <<ROOT, E1>>
           /\ gioAvail
           /\ meta[E1] = Named(MyDrive))
           => out' = <<Msg("path", <<SEP, "My Drive">>, NoStr)>>
      ]_vars

\* pwd has just printed /My Drive one level below the root
C9_Witness ==
    /\ pc = "render"
    /\ IsCmd(parts, "pwd", 1)
    /\ path_stack = <<ROOT, E1>>
    /\ current_path = E1
    /\ out = <<Msg("path", <<SEP, "My Drive">>, NoStr)>>

\* C10: cd .. with only the root on the stack changes neither the stack nor
\* the current location and prints nothing; with more on the stack it removes
\* exactly the top entry and the current location becomes the new top.
C10_Ascend ==
    [][(pc = "input" /\ parts' = <<Word("cd"), DotDot>>)
        => /\ pc' = "render"
           /\ out' = <<>>
           /\ IF Len(path_stack) = 1
              THEN path_stack' = path_stack /\ current_path' = current_path
              ELSE /\ path_stack' = SubSeq(path_stack, 1, Len(path_stack) - 1)
                   /\ current_path' = path_stack[Len(path_stack) - 1]
      ]_vars

\* cd .. has just run at the root of a session that never left the root
C10_Witness ==
    /\ pc = "render"
    /\ parts = <<Word("cd"), DotDot>>
    /\ path_stack = <<ROOT>>
    /\ current_path = ROOT
    /\ name_to_path = EmptyMap
    /\ envChanges = 0


\* C11: from a non-root location with stack S, ascend, descend into the entry
\* just left, ascend: the descent gives S back and the second ascent gives the
\* stack of the first.  Every cd .. from a non-root stack leaves a stack that
\* descending into the entry left restores, and every successful cd <name>
\* leaves a stack that cd .. undoes, whatever the mount and the stored mapping
\* have become.
C11_RoundTrip ==
    [][/\ (pc = "input" /\ parts' = <<Word("cd"), DotDot>> /\ Len(path_stack) > 1)
           => /\ descend(path_stack', current_path) = path_stack
              /\ ascend(descend(path_stack', current_path)) = path_stack'
              /\ path_stack' # path_stack
       /\ (pc = "input" /\ IsCmd(parts', "cd", 2) /\ parts'[2] # DotDot
              /\ path_stack' # path_stack)
           => /\ ascend(path_stack') = path_stack
              /\ up_current(path_stack', current_path') = current_path
              /\ Last(path_stack') = current_path'
      ]_vars

\* cd .. has just left id3 for id1, two levels below the root
C11_Witness ==
    /\ pc = "render"
    /\ parts = <<Word("cd"), DotDot>>
    /\ path_stack = <<ROOT, E1>>
    /\ current_path = E1

\* C12: the copy strategy follows this rule for every pair of arguments: a
\* source that is an absolute path existing on the real filesystem is copied
\* with the generic cp; any other source is looked up by display name among
\* the children of the current location, a miss copies nothing, a hit is
\* copied with gio copy iff the destination string starts with "/", and
\* otherwise with the generic cp to the child of the current location named by
\* the destination string.
C12_StrategyRule ==
    [][(pc = "input" /\ IsCmd(parts', "cp", 3) /\ Listable(current_path))
        => LET s == parts'[2]
               d == parts'[3]
               sp == PathOf(s)
               hits == {PathStr(e) : e \in Bearing(current_path, s)}
           IN  IF sp.abs /\ Exists(sp)
               THEN /\ Len(calls') = 1
                    /\ calls'[1].tool = "cp"
                    /\ calls'[1].src = PathStr(sp)
               ELSE IF s \notin FreshNames(current_path)
               THEN /\ calls' = <<>>
                    /\ HasMsgOn(out', "cp: no such file:", s)
               ELSE IF StartsWithSlash(d)
               THEN \/ pc' = "fatal" /\ calls' = <<>>
                    \/ /\ Len(calls') = 1
                       /\ calls'[1].tool = "gio copy"
                       /\ calls'[1].src \in hits
               ELSE /\ Len(calls') = 1
                    /\ calls'[1].tool = "cp"
                    /\ calls'[1].src \in hits
                    /\ calls'[1].dst = PathStr(current_path) \o <<SEP>> \o d
      ]_vars

\* cp Photos /tmp/b.txt has just run gio copy
C12_Witness ==
    /\ pc = "render"
    /\ parts = <<Word("cp"), Photos, TmpNewArg>>
    /\ Len(calls) = 1
    /\ calls[1].tool = "gio copy"
    /\ calls[1].res = "ok"

\* C13: a copy whose source is neither an existing absolute real path nor a
\* display name among the children of the current location reports "no such
\* file", runs no copy tool, leaves the location stack and the stored mapping
\* as they were, and the session goes on.
C13_CopyMiss ==
    [][(/\ pc = "input"
        /\ IsCmd(parts', "cp", 3)
        /\ Listable(current_path)
        /\ ~(PathOf(parts'[2]).abs /\ Exists(PathOf(parts'[2])))
        /\ parts'[2] \notin FreshNames(current_path))
        => /\ HasMsgOn(out', "cp: no such file:", parts'[2])
           /\ calls' = <<>>
           /\ path_stack' = path_stack
           /\ current_path' = current_path
           /\ name_to_path' = name_to_path
           /\ pc' = "render"
      ]_vars

\* cp Nope x.txt has just missed below the root, after a listing was stored
C13_Witness ==
    /\ pc = "render"
    /\ parts = <<Word("cp"), Nope, NewName>>
    /\ HasMsgOn(out, "cp: no such file:", Nope)
    /\ calls = <<>>
    /\ name_to_path # EmptyMap
    /\ Len(path_stack) = 2


\* C14: when the copy source is a mount entry and the destination string
\* starts with "/" and names an existing real directory, the destination
\* handed to gio copy is that directory with the display name of the source
\* appended as its final component, whatever the name resolution performed at
\* copy time returned.
C14_GioDestinationNamed ==
    (/\ AfterCommand
     /\ IsCmd(parts, "cp", 3)
     /\ ~(PathOf(parts[2]).abs /\ Exists(PathOf(parts[2])))
     /\ HasKey(mapping, parts[2])
     /\ StartsWithSlash(parts[3])
     /\ IsDir(PathOf(parts[3]))
     /\ calls # <<>>)
    => /\ calls[1].tool = "gio copy"
       /\ calls[1].dst = PathStr(PathOf(parts[3])) \o <<SEP>> \o parts[2]

\* The report of a copy: its confirmation and failure messages.
CopiedTags == {"Copied", "Copied via gio"}
FailedTags == {"cp: failed:", "gio cp failed:"}

\* C15: in every copy strategy, a copy tool that exits with a failure gives a
\* reported error and no confirmation, the session is back at the prompt, and
\* a copy tool that succeeds gives one confirmation naming the source and the
\* very destination string the tool was given; no confirmation is printed for
\* a copy that did not succeed, and no copy moves the stack or the location.
C15_CopyReport ==
    [][(pc = "input" /\ IsCmd(parts', "cp", 3))
        => /\ path_stack' = path_stack
           /\ current_path' = current_path
           /\ Len(calls') <= 1
           /\ (\E i \in 1..Len(out') : out'[i].tag \in CopiedTags)
                => Len(calls') = 1 /\ calls'[1].res = "ok"
           /\ (Len(calls') = 1 /\ calls'[1].res = "fail")
                => /\ pc' = "render"
                   /\ \E i \in 1..Len(out') : out'[i].tag \in FailedTags
                   /\ \A i \in 1..Len(out') : out'[i].tag \notin CopiedTags
           /\ (Len(calls') = 1 /\ calls'[1].res = "ok")
                => /\ pc' = "render"
                   /\ Cardinality({i \in 1..Len(out') : out'[i].tag \in CopiedTags}) = 1
                   /\ \E i \in 1..Len(out') :
                        /\ out'[i].tag \in CopiedTags
                        /\ out'[i].a = calls'[1].src
                        /\ out'[i].b = calls'[1].dst
                   /\ \A i \in 1..Len(out') : out'[i].tag \notin FailedTags
      ]_vars

\* a generic cp inside the mount has just failed, two levels below the root
C15_Witness ==
    /\ pc = "render"
    /\ IsCmd(parts, "cp", 3)
    /\ Len(calls) = 1
    /\ calls[1].tool = "cp"
    /\ calls[1].res = "fail"
    /\ HasMsg(out, "cp: failed:")
    /\ Len(path_stack) = 2


\* The verbs the loop knows.
KnownVerbs == {Word(v) : v \in {"exit", "ls", "cd", "mkdir", "cp", "pwd", "clear", "info", "help"}}

\* C16: only cd changes the location stack and the current location: ls,
\* mkdir, cp, pwd, info, clear, help, an empty line and any unknown verb, and
\* the rendering of the prompt, leave both as they were; an unknown verb
\* prints "<verb>: command not found" and the loop goes on.
C16_OnlyCdMoves ==
    [][/\ ~(pc = "input" /\ parts' # <<>> /\ parts'[1] = Word("cd"))
           => path_stack' = path_stack /\ current_path' = current_path
       /\ (pc = "input" /\ parts' # <<>> /\ parts'[1] \notin KnownVerbs)
           => /\ HasMsgOn(out', "command not found", parts'[1])
              /\ pc' = "render"
      ]_vars

\* the unknown verb LS has just been refused two levels below the root
C16_Witness ==
    /\ pc = "render"
    /\ parts = <<Word("LS")>>
    /\ HasMsgOn(out, "command not found", Word("LS"))
    /\ path_stack = <<ROOT, E1, E3>>
    /\ current_path = E3

\* The component an entry contributes to the human path: its display name,
\* or its raw name when the query fails or gives no name.
Component(e) ==
    IF meta[e].st = "ok" /\ meta[e].name # EmptyStr
    THEN meta[e].name ELSE <<e.parts[Len(e.parts)]>>

\* "/" for the root alone, else "/" and one component per entry after the
\* root, with "/" between them.
RECURSIVE ExpectedFrom(_, _)
ExpectedFrom(stack, i) ==
    IF i > Len(stack) THEN <<>>
    ELSE (IF i > 2 THEN <<SEP>> ELSE <<>>) \o Component(stack[i]) \o ExpectedFrom(stack, i + 1)
Expected(stack) == <<SEP>> \o ExpectedFrom(stack, 2)

\* C17: with gio installed (or at the root, where it is not run), the prompt
\* is always rendered and pwd always prints, both give "/" at the root and
\* otherwise "/" followed by one component per stack entry after the root
\* joined by "/", the component being the entry's display name or, when its
\* resolution fails, its raw internal name; so both give the same string for
\* the same stack and resolver results.
C17_HumanPath ==
    [][/\ (pc = "render" /\ (gioAvail \/ Len(path_stack) = 1))
           => pc' = "input" /\ prompt_path' = Expected(path_stack)
       /\ (pc = "render" /\ pc' = "input") => prompt_path' = Expected(path_stack)
       /\ (pc = "input" /\ parts' = <<Word("pwd")>> /\ (gioAvail \/ Len(path_stack) = 1))
           => /\ pc' = "render"
              /\ CountMsgOn(out', "path", Expected(path_stack)) = 1
              /\ \A i \in 1..Len(out') : out'[i].tag = "path" => out'[i].a = Expected(path_stack)
      ]_vars

\* pwd has just fallen back to the raw name id3 for an entry the prompt
\* before it still showed by its display name
C17_Witness ==
    /\ pc = "render"
    /\ parts = <<Word("pwd")>>
    /\ HasMsgOn(out, "path", <<SEP, "My Drive", SEP, "id3">>)
    /\ prompt_path = <<SEP, "My Drive", SEP, "Photos">>

\* The display names in code point order: "M" < "P" < "a".
CodePointOrder == <<MyDrive, Photos, Apple>>

\* The names a command printed, in the order printed.
PrintedNames(o) ==
    LET ns == SelectSeq(o, LAMBDA msg : msg.tag = "name")
    IN  [i \in 1..Len(ns) |-> ns[i].a]

\* C18: ls prints every key of the mapping it built exactly once, in
\* case-sensitive (code point) order, whatever the order in which the
\* children were enumerated.
C18_ListingSorted ==
    (pc = "render" /\ parts = <<Word("ls")>>)
    => PrintedNames(out) = SelectSeq(CodePointOrder, LAMBDA n : n \in DOMAIN name_to_path)

\* ls has just printed an upper-case name before a lower-case one
C18_Witness ==
    /\ pc = "render"
    /\ parts = <<Word("ls")>>
    /\ PrintedNames(out) = <<MyDrive, Apple>>

\* The strategy as a function of the four inputs alone.
Classify(s, d, names, exists) ==
    IF PathOf(s).abs /\ exists THEN "real"
    ELSE IF s \notin names THEN "miss"
    ELSE IF StartsWithSlash(d) THEN "gio"
    ELSE "mount"

\* The strategy a copy was seen to take: no tool run, gio copy, cp from a
\* mount entry, or cp from a real file.
Observed ==
    IF calls = <<>> THEN "miss"
    ELSE IF calls[1].tool = "gio copy" THEN "gio"
    ELSE IF IsPrefix(PathStr(ROOT), calls[1].src) THEN "mount"
    ELSE "real"

\* C19: the strategy a copy takes is a function of the source string, the
\* destination string, the names of the current location's children now and
\* whether the source exists on the real filesystem: in every reachable state
\* after a copy that got as far as choosing, whatever was listed or stored
\* before and however deep the stack is, the strategy seen is that function
\* of those four.
C19_ClassificationPure ==
    (/\ AfterCommand
     /\ IsCmd(parts, "cp", 3)
     /\ (pc = "render" \/ calls # <<>>))
    => Observed = Classify(parts[2], parts[3], FreshNames(current_path),
                           Exists(PathOf(parts[2])))

\* a copy has just found a source the stored mapping of an earlier ls does
\* not hold
C19_Witness ==
    /\ pc = "render"
    /\ IsCmd(parts, "cp", 3)
    /\ name_to_path # EmptyMap
    /\ parts[2] \notin DOMAIN name_to_path
    /\ calls # <<>>
    /\ Observed = "mount"

\* C20: in every reachable state, hence at every prompt, the global
\* current_path is the top of path_stack.
C20_CurrentIsTop == current_path = Last(path_stack)

\* at the prompt two levels below the root
C20_Witness ==
    /\ pc = "input"
    /\ path_stack = <<ROOT, E1, E3>>
    /\ current_path = E3

====
